---- MODULE Spec2Model ----
(***************************************************************************)
(* Model of the GraphRAG question-answering pipeline (src/kuzu/rag.py) and *)
(* of its evaluation harness (src/kuzu/evaluate.py).                       *)
(*                                                                         *)
(* Texts are sequences of tokens.  A token is one character, or an atom    *)
(* standing for a fixed run of characters that holds no digit.             *)
(*                                                                         *)
(* Four specifications share the variables:                                *)
(*   Spec        run_evaluation: the loop over the questions               *)
(*   SpecRag     GraphRAG.run with execute_query                           *)
(*   SpecJudge   judge_response on one response text of the judge service  *)
(*   SpecSchema  get_schema_baml called repeatedly on one schema           *)
(***************************************************************************)
EXTENDS Integers, Sequences, FiniteSets, TLC

VARIABLES
    \* run_evaluation
    dataset,      \* the rows of the CSV file, as read by csv.DictReader
    questions,    \* load_questions' result
    idx,          \* position of the for loop in questions
    evalPc,       \* "load", "pipeline", "score", "summary", "returned", "crashed"
    cur,          \* response, cypher and error of the current question
    results,      \* the list of records
    log,          \* the calls made so far: pipeline and judge, with the question id
    summary,      \* what the summary block prints
    \* GraphRAG.run / execute_query
    ragPc,        \* "start", "execute", "fetch", "synthesize", "returned", "raised"
    cypher,       \* what RAGText2Cypher returned
    result,       \* run's result dict
    columns,      \* response.get_column_names()
    backend,      \* the rows the cursor will deliver
    cursor,       \* rows delivered so far
    rows,         \* execute_query's rows
    seen,         \* execute_query's seen
    result_str,   \* execute_query's result_str
    calls,        \* the external calls run made so far
    synth,        \* what RAGAnswerQuestion returned
    \* judge_response
    judgePc,      \* "call", "done"
    judgeText,    \* result.text
    judgeOut,     \* what judge_response returned or raised
    \* get_schema_baml
    schema,       \* the tables of the database
    enum,         \* the order in which the backend enumerated them last
    texts,        \* the grounding texts produced so far
    reordered     \* whether two introspections saw different orders

evalVars == <<dataset, questions, idx, evalPc, cur, results, log, summary>>
ragVars == <<ragPc, cypher, result, columns, backend, cursor, rows, seen, result_str, calls, synth>>
judgeVars == <<judgePc, judgeText, judgeOut>>
schemaVars == <<schema, enum, texts, reordered>>
vars == <<evalVars, ragVars, judgeVars, schemaVars>>

----------------------------------------------------------------------------
\* Bounds

MaxTextLen == 3
MaxDataset == 3
MaxBackendRows == 3
MaxIntrospections == 2

----------------------------------------------------------------------------
\* Generic helpers

Last(s) == s[Len(s)]

Range(s) == {s[i] : i \in DOMAIN s}

SeqsUpTo(S, n) == UNION {[1..k -> S] : k \in 0..n}

RECURSIVE Join(_, _)
\* sep.join(parts): parts is a sequence of texts, sep a token
Join(parts, sep) ==
    IF parts = <<>> THEN <<>>
    ELSE IF Len(parts) = 1 THEN parts[1]
    ELSE parts[1] \o <<sep>> \o Join(Tail(parts), sep)

----------------------------------------------------------------------------
\* Python values, as far as the harness tells them apart

NoMembers == [k \in {} |-> TRUE]

PyStr(s) == [t |-> "str", s |-> s, n |-> 0, m |-> NoMembers]
PyInt(n) == [t |-> "int", s |-> <<>>, n |-> n, m |-> NoMembers]
PyNone == [t |-> "none", s |-> <<>>, n |-> 0, m |-> NoMembers]
PyList == [t |-> "list", s |-> <<>>, n |-> 0, m |-> NoMembers]
PyDict(m) == [t |-> "dict", s |-> <<>>, n |-> 0, m |-> m]

----------------------------------------------------------------------------
\* json.loads on the judge's response text (evaluate.py line 94)

K_SCORE == "\"score\":"
K_REASONING == "\"reasoning\":"
QT == "\""
SUP2 == "superscript-2"     \* a character with isdigit() true that int() rejects

AsciiDigits == {"0", "4", "7"}
Alphabet == {"{", "}", "[", "]", ",", K_SCORE, K_REASONING, QT, "x", "null", SUP2}
                \cup AsciiDigits

DigitVal(ch) == CASE ch = "0" -> 0 [] ch = "4" -> 4 [] ch = "7" -> 7

RECURSIVE DecVal(_)
DecVal(s) == IF s = <<>> THEN 0 ELSE 10 * DecVal(SubSeq(s, 1, Len(s) - 1)) + DigitVal(Last(s))

RECURSIVE NumberEnd(_, _)
\* the last index of the number that starts at i: 0 | [1-9][0-9]*
NumberEnd(t, i) ==
    IF t[i] = "0" THEN i
    ELSE IF i + 1 <= Len(t) /\ t[i + 1] \in AsciiDigits THEN NumberEnd(t, i + 1)
    ELSE i

RECURSIVE StringEnd(_, _)
\* the index of the quote that closes the string whose content starts at i, 0 if none
\* (the quote that opens a key atom closes the string and leaves text no grammar accepts)
StringEnd(t, i) ==
    IF i > Len(t) THEN 0
    ELSE IF t[i] = QT THEN i
    ELSE IF t[i] \in {K_SCORE, K_REASONING} THEN 0
    ELSE StringEnd(t, i + 1)

KeyOf(atom) == IF atom = K_SCORE THEN "score" ELSE "reasoning"

ParseFail == [ok |-> FALSE, nxt |-> 0, val |-> PyNone]
ParseOk(v, n) == [ok |-> TRUE, nxt |-> n, val |-> v]

\* dict assignment: a repeated key keeps its last value
Put(m, k, v) == [x \in DOMAIN m \cup {k} |-> IF x = k THEN v ELSE m[x]]

RECURSIVE ParseValue(_, _), ParseElems(_, _), ParseMembers(_, _, _)

ParseValue(t, i) ==
    IF i > Len(t) THEN ParseFail
    ELSE IF t[i] = "null" THEN ParseOk(PyNone, i + 1)
    ELSE IF t[i] \in AsciiDigits THEN
        LET j == NumberEnd(t, i) IN ParseOk(PyInt(DecVal(SubSeq(t, i, j))), j + 1)
    ELSE IF t[i] = QT THEN
        LET j == StringEnd(t, i + 1) IN
        IF j = 0 THEN ParseFail ELSE ParseOk(PyStr(SubSeq(t, i + 1, j - 1)), j + 1)
    ELSE IF t[i] = "[" THEN
        IF i + 1 <= Len(t) /\ t[i + 1] = "]" THEN ParseOk(PyList, i + 2)
        ELSE ParseElems(t, i + 1)
    ELSE IF t[i] = "{" THEN
        IF i + 1 <= Len(t) /\ t[i + 1] = "}" THEN ParseOk(PyDict(NoMembers), i + 2)
        ELSE ParseMembers(t, i + 1, NoMembers)
    ELSE ParseFail

ParseElems(t, i) ==
    LET r == ParseValue(t, i) IN
    IF ~r.ok \/ r.nxt > Len(t) THEN ParseFail
    ELSE IF t[r.nxt] = "," THEN ParseElems(t, r.nxt + 1)
    ELSE IF t[r.nxt] = "]" THEN ParseOk(PyList, r.nxt + 1)
    ELSE ParseFail

ParseMembers(t, i, m) ==
    IF i > Len(t) \/ t[i] \notin {K_SCORE, K_REASONING} THEN ParseFail
    ELSE
        LET r == ParseValue(t, i + 1) IN
        IF ~r.ok \/ r.nxt > Len(t) THEN ParseFail
        ELSE IF t[r.nxt] = "," THEN ParseMembers(t, r.nxt + 1, Put(m, KeyOf(t[i]), r.val))
        ELSE IF t[r.nxt] = "}" THEN ParseOk(PyDict(Put(m, KeyOf(t[i]), r.val)), r.nxt + 1)
        ELSE ParseFail

\* json.loads(text): ok, or JSONDecodeError
json_loads(text) ==
    LET r == ParseValue(text, 1) IN
    IF r.ok /\ r.nxt = Len(text) + 1 THEN r ELSE ParseFail

----------------------------------------------------------------------------
\* judge_response (evaluate.py lines 93-102)

JudgeReturn(score, reasoning) == [exc |-> "none", score |-> score, reasoning |-> reasoning]
JudgeRaise(e) == [exc |-> e, score |-> 0, reasoning |-> PyNone]

\* int(v) for a parsed JSON value
PyIntOf(v) ==
    IF v.t = "int" THEN [exc |-> "none", n |-> v.n]
    ELSE IF v.t = "str" THEN
        IF v.s # <<>> /\ Range(v.s) \subseteq AsciiDigits
        THEN [exc |-> "none", n |-> DecVal(v.s)]
        ELSE [exc |-> "ValueError", n |-> 0]
    ELSE [exc |-> "TypeError", n |-> 0]

IsDigit(ch) == ch \in AsciiDigits \cup {SUP2}

RECURSIVE ScanDigits(_, _)
\* the except branch: for ch in result.text (lines 99-102)
ScanDigits(text, i) ==
    IF i > Len(text)
    THEN JudgeReturn(1, PyStr(<<"Could not parse judge response: ">> \o text))
    ELSE IF IsDigit(text[i]) THEN
        IF text[i] = SUP2 THEN JudgeRaise("ValueError")
        ELSE IF 1 <= DigitVal(text[i]) /\ DigitVal(text[i]) <= 5
        THEN JudgeReturn(DigitVal(text[i]), PyStr(text))
        ELSE ScanDigits(text, i + 1)
    ELSE ScanDigits(text, i + 1)

\* parsed.get("reasoning", "")
GetReasoning(parsed) ==
    IF "reasoning" \in DOMAIN parsed.m THEN parsed.m["reasoning"] ELSE PyStr(<<>>)

judge_response(text) ==
    LET r == json_loads(text) IN
    IF ~r.ok THEN ScanDigits(text, 1)                           \* JSONDecodeError
    ELSE IF r.val.t # "dict" THEN JudgeRaise("TypeError")       \* parsed["score"]
    ELSE IF "score" \notin DOMAIN r.val.m THEN ScanDigits(text, 1)   \* KeyError
    ELSE
        LET c == PyIntOf(r.val.m["score"]) IN
        IF c.exc = "TypeError" THEN JudgeRaise("TypeError")
        ELSE IF c.exc = "ValueError" THEN ScanDigits(text, 1)
        ELSE JudgeReturn(c.n, GetReasoning(r.val))

----------------------------------------------------------------------------
\* GraphRAG.run as seen by its caller (rag.py lines 115-130)

NA == <<"N/A">>

QueryTexts == {<<>>, <<"MATCH">>}

\* what b.RAGText2Cypher does: no query, a Query object, or an error
GenOutcomes ==
    {[kind |-> "none", query |-> <<>>], [kind |-> "raise", query |-> <<>>]}
        \cup {[kind |-> "query", query |-> q] : q \in QueryTexts}

\* what b.RAGAnswerQuestion does: an Answer object, or an error
SynthTexts == {<<>>, NA, <<"Jane Doe">>}
SynthOutcomes ==
    {[kind |-> "raise", answer |-> <<>>]} \cup {[kind |-> "answer", answer |-> a] : a \in SynthTexts}

\* traceback.format_exc(): the lines of the trace, the exception last
Trace(exc) == <<"Traceback (most recent call last):", "  File \"rag.py\"", exc>>

GenError == "BamlClientError: request failed"
ExecError == "RuntimeError: Binder exception"
HashError == "TypeError: unhashable type"

\* `if cypher`: the truth value of the object RAGText2Cypher returned
RunHasQuery(c) == c.kind = "query"

\* "cypher": cypher.query if cypher else "N/A"
CypherField(c) == IF RunHasQuery(c) THEN c.query ELSE NA

RunReturn(cy, resp) == [raised |-> FALSE, trace |-> <<>>, cypher |-> cy, response |-> resp]
RunRaise(exc) == [raised |-> TRUE, trace |-> Trace(exc), cypher |-> <<>>, response |-> <<>>]

\* graph_rag.run(question), given what the three collaborators do;
\* e is "ok" or the error execute_query raises
run_call(g, e, s) ==
    IF g.kind = "raise" THEN RunRaise(GenError)
    ELSE IF ~RunHasQuery(g) THEN RunReturn(CypherField(g), NA)
    ELSE IF e # "ok" THEN RunRaise(e)
    ELSE IF s.kind = "raise" THEN RunRaise(GenError)
    ELSE RunReturn(CypherField(g), s.answer)

ExecOutcomes == {"ok", ExecError, HashError}

----------------------------------------------------------------------------
\* run_evaluation (evaluate.py lines 105-176)

SCORE_LABELS == [s \in 1..5 |->
    CASE s = 1 -> "no_answer" [] s = 2 -> "wrong" [] s = 3 -> "partial"
      [] s = 4 -> "acceptable" [] s = 5 -> "correct"]

\* SCORE_LABELS.get(score, "unknown")
LabelOf(score) == IF score \in DOMAIN SCORE_LABELS THEN SCORE_LABELS[score] ELSE "unknown"

RECURSIVE LStrip(_)
LStrip(s) == IF s # <<>> /\ s[1] = " " THEN LStrip(Tail(s)) ELSE s

RECURSIVE RStrip(_)
RStrip(s) == IF s # <<>> /\ Last(s) = " " THEN RStrip(SubSeq(s, 1, Len(s) - 1)) ELSE s

\* str.strip()
Strip(s) == RStrip(LStrip(s))

\* `if question:` in load_questions
KeepRow(question) == question # <<>>

RECURSIVE LoadFrom(_, _)
\* the loop of load_questions from row i on
LoadFrom(rws, i) ==
    IF i > Len(rws) THEN <<>>
    ELSE
        LET question == Strip(rws[i].Question)
            baseline == Strip(rws[i].Baseline)
        IN  IF KeepRow(question)
            THEN <<[id |-> i, question |-> question, baseline |-> baseline]>> \o LoadFrom(rws, i + 1)
            ELSE LoadFrom(rws, i + 1)

load_questions(rws) == LoadFrom(rws, 1)

RawQuestions == {<<>>, <<" ">>, <<" ", "Who gave the keynote?">>}
RawBaselines == {<<"Jane Doe", " ">>}
DatasetRows == [Question : RawQuestions, Baseline : RawBaselines]

\* the judge's response texts the evaluation run is checked with
EvalJudgeTexts ==
    { <<"{", K_SCORE, "4", "}">>,
      <<"{", K_SCORE, "7", "}">>,
      <<"x", "4">>,
      <<"x">>,
      <<"4">> }

NoError == [none |-> TRUE, lines |-> <<>>]
ErrorOf(trace) == [none |-> FALSE, lines |-> trace]

\* `if error:`
ErrorSet(error) == ~error.none /\ error.lines # <<>>

\* a harness that sends the sentinel to the judge
NoResponseEmptyOnly(response) == response = <<>>

\* `not response or response == "N/A"`
NoResponse(response) == response = <<>> \/ response = NA

NoCur == [response |-> <<>>, cypher |-> <<>>, error |-> NoError]
NoSummary == [sum |-> 0, n |-> 0, label_counts |-> [l \in {} |-> 0]]

Record(q, c, score, reasoning) ==
    [id |-> q.id, question |-> q.question, baseline |-> q.baseline,
     cypher |-> c.cypher, response |-> c.response, score |-> score,
     label |-> LabelOf(score), reasoning |-> reasoning, error |-> c.error]

\* questions = load_questions(QA_CSV); graph_rag = GraphRAG() (lines 106-112)
EvalLoad ==
    /\ evalPc = "load"
    /\ questions' = load_questions(dataset)
    /\ idx' = 1
    /\ evalPc' = IF questions' = <<>> THEN "summary" ELSE "pipeline"
    /\ UNCHANGED <<dataset, cur, results, log, summary>>
    /\ UNCHANGED <<ragVars, judgeVars, schemaVars>>

\* the try block of one iteration (lines 115-127)
EvalPipeline ==
    /\ evalPc = "pipeline"
    /\ \E g \in GenOutcomes, e \in ExecOutcomes, s \in SynthOutcomes :
        LET r == run_call(g, e, s) IN
        /\ cur' = IF r.raised
                  THEN [response |-> <<>>, cypher |-> <<>>, error |-> ErrorOf(r.trace)]
                  ELSE [response |-> r.response, cypher |-> r.cypher, error |-> NoError]
        /\ log' = Append(log, [op |-> "pipeline", id |-> questions[idx].id,
                               raised |-> r.raised, response |-> r.response])
    /\ evalPc' = "score"
    /\ UNCHANGED <<dataset, questions, idx, results, summary>>
    /\ UNCHANGED <<ragVars, judgeVars, schemaVars>>

\* results.append(...) and the step of the for loop (lines 136-152)
EvalAppend(score, reasoning) ==
    /\ results' = Append(results, Record(questions[idx], cur, score, reasoning))
    /\ idx' = idx + 1
    /\ evalPc' = IF idx + 1 > Len(questions) THEN "summary" ELSE "pipeline"

\* the rest of the iteration (lines 129-152)
EvalScore ==
    /\ evalPc = "score"
    /\ \/ /\ ErrorSet(cur.error)
          /\ EvalAppend(1, PyStr(<<"Exception: ", Last(cur.error.lines)>>))
          /\ UNCHANGED log
       \/ /\ ~ErrorSet(cur.error)
          /\ NoResponse(cur.response)
          /\ EvalAppend(1, PyStr(<<"No response returned">>))
          /\ UNCHANGED log
       \/ /\ ~ErrorSet(cur.error)
          /\ ~NoResponse(cur.response)
          /\ \E text \in EvalJudgeTexts :
                LET j == judge_response(text) IN
                /\ log' = Append(log, [op |-> "judge", id |-> questions[idx].id,
                                       raised |-> j.exc # "none", response |-> text])
                /\ IF j.exc = "none"
                   THEN EvalAppend(j.score, j.reasoning)
                   ELSE \* the error leaves run_evaluation
                        /\ evalPc' = "crashed"
                        /\ UNCHANGED <<results, idx>>
    /\ UNCHANGED <<dataset, questions, cur, summary>>
    /\ UNCHANGED <<ragVars, judgeVars, schemaVars>>

RECURSIVE SumScores(_)
SumScores(rs) == IF rs = <<>> THEN 0 ELSE rs[1].score + SumScores(Tail(rs))

\* the summary block (lines 155-176)
EvalSummary ==
    /\ evalPc = "summary"
    /\ summary' =
        [sum |-> SumScores(results),
         n |-> Len(results),
         label_counts |->
            [l \in Range(SCORE_LABELS) \cup {results[i].label : i \in DOMAIN results} |->
                Cardinality({i \in DOMAIN results : results[i].label = l})]]
    /\ evalPc' = "returned"
    /\ UNCHANGED <<dataset, questions, idx, cur, results, log>>
    /\ UNCHANGED <<ragVars, judgeVars, schemaVars>>

----------------------------------------------------------------------------
\* judge_response on its own

LongJudgeTexts ==
    { <<"{", K_SCORE, "4", "}">>,
      <<"{", K_SCORE, "7", "}">>,
      <<"{", K_SCORE, "null", "}">>,
      <<"{", K_SCORE, QT, "4", QT, "}">>,
      <<"{", K_SCORE, QT, "x", QT, ",", K_REASONING, QT, "4", QT, "}">>,
      <<"{", K_SCORE, "4", ",", K_REASONING, QT, "x", QT, "}">>,
      <<"{", K_REASONING, QT, "x", QT, ",", K_SCORE, "4", "}">>,
      <<"{", K_REASONING, QT, "4", QT, "}">>,
      <<"{", K_SCORE, "4", ",", K_SCORE, "7", "}">>,
      <<"[", "4", ",", "7", "]">>,
      <<"x", "7", "0", "4", "x">> }

JudgeTexts == SeqsUpTo(Alphabet, MaxTextLen) \cup LongJudgeTexts

NoJudgeOut == JudgeRaise("not called")

JudgeCall ==
    /\ judgePc = "call"
    /\ judgeOut' = judge_response(judgeText)
    /\ judgePc' = "done"
    /\ UNCHANGED judgeText
    /\ UNCHANGED <<evalVars, ragVars, schemaVars>>

----------------------------------------------------------------------------
\* GraphRAG.execute_query and GraphRAG.run, step by step (rag.py lines 85-130)

Question == <<"Who gave the keynote?">>

\* the values a cursor row holds: str, int, None, and a node (a dict, unhashable)
Val(k, v) == [k |-> k, v |-> v]
CellValues == {Val("str", "a"), Val("int", "1"), Val("null", "None"), Val("node", "{...}")}

\* str(val)
Str(val) == val.v

\* hash(tuple(item)) succeeds
Hashable(item) == \A i \in DOMAIN item : item[i].k # "node"

ColumnLists == {<<"name">>, <<"name", "age">>}

BackendRows(cols) == [1..Len(cols) -> CellValues]

\* a serializer that keeps the pairs of null values
KeepPairAll(val) == TRUE

\* `if val is not None` in the row's generator
KeepPair(val) == val.k # "null"

RECURSIVE PairsFrom(_, _, _)
\* the f"{col}: {val}" strings of zip(columns, row) from position i on
PairsFrom(cols, row, i) ==
    IF i > Len(cols) \/ i > Len(row) THEN <<>>
    ELSE IF KeepPair(row[i])
    THEN <<(<<cols[i], ": ", Str(row[i])>>)>> \o PairsFrom(cols, row, i + 1)
    ELSE PairsFrom(cols, row, i + 1)

\* lines 98-111
Serialize(cols, rws) ==
    IF rws = <<>> THEN <<>>
    ELSE IF Len(cols) = 1 THEN Join([i \in DOMAIN rws |-> <<Str(rws[i][1])>>], ", ")
    ELSE Join([i \in DOMAIN rws |-> Join(PairsFrom(cols, rws[i], 1), " | ")], "\n")

\* a pipeline that keeps the sentinel when the answer is empty
ResponseFieldOrNA(s) == IF s.answer = <<>> THEN NA ELSE s.answer

\* result["response"] = r.answer
ResponseField(s) == s.answer

NoCypher == [kind |-> "none", query |-> <<>>]
NoSynth == [kind |-> "none", answer |-> <<>>]
NoResult == [question |-> <<>>, cypher |-> <<>>, response |-> <<>>]

\* cypher = b.RAGText2Cypher(...); result = {...} (lines 116-124)
RunGenerate ==
    /\ ragPc = "start"
    /\ calls' = Append(calls, "generate")
    /\ \E g \in GenOutcomes :
        /\ cypher' = g
        /\ IF g.kind = "raise"
           THEN /\ ragPc' = "generate_raised"
                /\ UNCHANGED result
           ELSE /\ result' = [question |-> Question, cypher |-> CypherField(g), response |-> NA]
                /\ ragPc' = IF RunHasQuery(g) THEN "execute" ELSE "returned"
    /\ UNCHANGED <<columns, backend, cursor, rows, seen, result_str, synth>>
    /\ UNCHANGED <<evalVars, judgeVars, schemaVars>>

\* response = self.conn.execute(cypher); columns, rows, seen (lines 87-90)
ExecStart ==
    /\ ragPc = "execute"
    /\ calls' = Append(calls, "execute")
    /\ \/ /\ ragPc' = "execute_raised"      \* the backend rejects the query
          /\ UNCHANGED <<columns, backend>>
       \/ \E cols \in ColumnLists :
            \E b \in SeqsUpTo(BackendRows(cols), MaxBackendRows) :
                /\ columns' = cols
                /\ backend' = b
                /\ ragPc' = "fetch"
    /\ cursor' = 0
    /\ rows' = <<>>
    /\ seen' = {}
    /\ UNCHANGED <<cypher, result, result_str, synth>>
    /\ UNCHANGED <<evalVars, judgeVars, schemaVars>>

\* one turn of the while loop (lines 91-96)
ExecFetch ==
    /\ ragPc = "fetch"
    /\ cursor < Len(backend)
    /\ cursor' = cursor + 1
    /\ LET item == backend[cursor + 1] IN
        IF ~Hashable(item)
        THEN /\ ragPc' = "fetch_raised"     \* TypeError from `key not in seen`
             /\ UNCHANGED <<rows, seen>>
        ELSE IF item \notin seen
        THEN /\ seen' = seen \cup {item}
             /\ rows' = Append(rows, item)
             /\ UNCHANGED ragPc
        ELSE UNCHANGED <<ragPc, rows, seen>>
    /\ UNCHANGED <<cypher, result, columns, backend, result_str, calls, synth>>
    /\ UNCHANGED <<evalVars, judgeVars, schemaVars>>

\* the loop is over: result_str, return (lines 98-113)
ExecSerialize ==
    /\ ragPc = "fetch"
    /\ cursor = Len(backend)
    /\ result_str' = Serialize(columns, rows)
    /\ ragPc' = "synthesize"
    /\ UNCHANGED <<cypher, result, columns, backend, cursor, rows, seen, calls, synth>>
    /\ UNCHANGED <<evalVars, judgeVars, schemaVars>>

\* r = b.RAGAnswerQuestion(...); result["response"] = r.answer; return (lines 126-130)
RunSynthesize ==
    /\ ragPc = "synthesize"
    /\ calls' = Append(calls, "synthesize")
    /\ \E s \in SynthOutcomes :
        /\ synth' = s
        /\ IF s.kind = "raise"
           THEN /\ ragPc' = "synthesize_raised"
                /\ UNCHANGED result
           ELSE /\ result' = [result EXCEPT !.response = ResponseField(s)]
                /\ ragPc' = "returned"
    /\ UNCHANGED <<cypher, columns, backend, cursor, rows, seen, result_str>>
    /\ UNCHANGED <<evalVars, judgeVars, schemaVars>>

----------------------------------------------------------------------------
\* get_schema_dict and get_schema_baml (rag.py lines 16-75)

\* the strings of the schema in the order Python compares them (by code point)
StrOrder == <<"Event", "GIVEN_AT", "GIVES", "INT64", "STRING", "Speaker", "Talk",
              "name", "title", "year">>

StrRank(str) == CHOOSE i \in DOMAIN StrOrder : StrOrder[i] = str

RECURSIVE TupleLess(_, _)
\* a < b for tuples of ranks
TupleLess(a, b) ==
    IF a = <<>> \/ b = <<>> THEN a = <<>> /\ b # <<>>
    ELSE IF a[1] # b[1] THEN a[1] < b[1]
    ELSE TupleLess(Tail(a), Tail(b))

RECURSIVE Insert(_, _)
\* x goes after the entries whose key is not greater (the sort is stable)
Insert(sorted, x) ==
    IF sorted = <<>> THEN <<x>>
    ELSE IF TupleLess(x.key, sorted[1].key) THEN <<x>> \o sorted
    ELSE <<sorted[1]>> \o Insert(Tail(sorted), x)

RECURSIVE SortKeyed(_)
\* sorted(items, key=...): items are [key, item]
SortKeyed(items) ==
    IF items = <<>> THEN <<>>
    ELSE Insert(SortKeyed(SubSeq(items, 1, Len(items) - 1)), Last(items))

Items(sorted) == [i \in DOMAIN sorted |-> sorted[i].item]

\* sorted(conn._get_node_table_names())
SortNodes(names) ==
    Items(SortKeyed([i \in DOMAIN names |-> [key |-> <<StrRank(names[i])>>, item |-> names[i]]]))

\* sorted(conn._get_rel_table_names(), key=lambda rel: (rel["src"], rel["name"], rel["dst"]))
SortRels(rels) ==
    Items(SortKeyed([i \in DOMAIN rels |->
        [key |-> <<StrRank(rels[i].src), StrRank(rels[i].name), StrRank(rels[i].dst)>>,
         item |-> rels[i]]]))

\* an introspector that leaves the properties as the backend lists them
SortPropsNot(props) == props

\* properties.sort(key=lambda prop: (prop["name"], prop["type"]))
SortProps(props) ==
    Items(SortKeyed([i \in DOMAIN props |->
        [key |-> <<StrRank(props[i].name), StrRank(props[i].type)>>, item |-> props[i]]]))

NodeNames == {"Event", "Speaker", "Talk"}

Rel(name, src, dst) == [name |-> name, src |-> src, dst |-> dst]
RelPool == {Rel("GIVES", "Speaker", "Talk"), Rel("GIVES", "Speaker", "Event"),
            Rel("GIVEN_AT", "Talk", "Event")}

Prop(name, type) == [name |-> name, type |-> type]

\* the columns of each table, as CALL TABLE_INFO reports them
TableInfo(table) ==
    CASE table = "Event" -> {Prop("name", "STRING"), Prop("year", "INT64")}
      [] table = "Speaker" -> {Prop("name", "STRING")}
      [] table = "Talk" -> {Prop("title", "STRING"), Prop("year", "INT64")}
      [] table = "GIVES" -> {}
      [] table = "GIVEN_AT" -> {Prop("year", "INT64")}

Schemas ==
    {sc \in [nodes : SUBSET NodeNames, rels : SUBSET RelPool] :
        \A r \in sc.rels : r.src \in sc.nodes /\ r.dst \in sc.nodes}

Perms(S) == {p \in [1..Cardinality(S) -> S] : Range(p) = S}

Tables(sc) == sc.nodes \cup {r.name : r \in sc.rels}

\* the orders in which the backend may enumerate the tables and their columns
Enumerations(sc) ==
    {[nodes |-> n, rels |-> r, cols |-> c] :
        n \in Perms(sc.nodes), r \in Perms(sc.rels),
        c \in {f \in [Tables(sc) -> UNION {Perms(TableInfo(t)) : t \in Tables(sc)}] :
                \A t \in Tables(sc) : f[t] \in Perms(TableInfo(t))}}

get_schema_dict(e) ==
    LET nodes == SortNodes(e.nodes)
        relationships == SortRels(e.rels)
    IN  [nodes |-> [i \in DOMAIN nodes |->
                      [label |-> nodes[i], properties |-> SortProps(e.cols[nodes[i]])]],
         edges |-> [i \in DOMAIN relationships |->
                      [label |-> relationships[i].name, src |-> relationships[i].src,
                       dst |-> relationships[i].dst,
                       properties |-> SortProps(e.cols[relationships[i].name])]]]

\* prop["type"].lower()
Lower(type) == CASE type = "STRING" -> "string" [] type = "INT64" -> "int64"

PropLines(props) == [i \in DOMAIN props |-> <<"    - ", props[i].name, ": ", Lower(props[i].type)>>]

RECURSIVE Flatten(_)
Flatten(ss) == IF ss = <<>> THEN <<>> ELSE ss[1] \o Flatten(Tail(ss))

get_schema_baml(e) ==
    LET sd == get_schema_dict(e)
        lines ==
            <<(<<"ALWAYS RESPECT THE EDGE DIRECTIONS:\n---">>)>>
            \o [i \in DOMAIN sd.edges |->
                  <<"(:", sd.edges[i].src, ") -[:", sd.edges[i].label, "]-> (:", sd.edges[i].dst, ")">>]
            \o <<(<<"---">>)>>
            \o <<(<<"\nNode properties:">>)>>
            \o Flatten([i \in DOMAIN sd.nodes |->
                  <<(<<"  - ", sd.nodes[i].label>>)>> \o PropLines(sd.nodes[i].properties)])
            \o <<(<<"\nEdge properties:">>)>>
            \o Flatten([i \in DOMAIN sd.edges |->
                  IF sd.edges[i].properties # <<>>
                  THEN <<(<<"- ", sd.edges[i].label>>)>> \o PropLines(sd.edges[i].properties)
                  ELSE <<>>])
    IN  Join(lines, "\n")

NoEnum == [nodes |-> <<>>, rels |-> <<>>, cols |-> <<>>]

\* self.baml_schema = get_schema_baml(self.conn), once more on the same database
Introspect ==
    /\ Len(texts) < MaxIntrospections
    /\ \E e \in Enumerations(schema) :
        /\ texts' = Append(texts, get_schema_baml(e))
        /\ enum' = e
        /\ reordered' = (reordered \/ (texts # <<>> /\ e # enum))
    /\ UNCHANGED schema
    /\ UNCHANGED <<evalVars, ragVars, judgeVars>>

----------------------------------------------------------------------------
\* The specifications

EvalIdle ==
    /\ dataset = <<>> /\ questions = <<>> /\ idx = 0 /\ evalPc = "off"
    /\ cur = NoCur /\ results = <<>> /\ log = <<>> /\ summary = NoSummary

RagIdle ==
    /\ ragPc = "off" /\ cypher = NoCypher /\ result = NoResult /\ columns = <<>>
    /\ backend = <<>> /\ cursor = 0 /\ rows = <<>> /\ seen = {} /\ result_str = <<>>
    /\ calls = <<>> /\ synth = NoSynth

JudgeIdle == judgePc = "off" /\ judgeText = <<>> /\ judgeOut = NoJudgeOut

SchemaIdle ==
    /\ schema = [nodes |-> {}, rels |-> {}] /\ enum = NoEnum /\ texts = <<>>
    /\ reordered = FALSE

Init ==
    /\ dataset \in SeqsUpTo(DatasetRows, MaxDataset)
    /\ questions = <<>> /\ idx = 0 /\ evalPc = "load"
    /\ cur = NoCur /\ results = <<>> /\ log = <<>> /\ summary = NoSummary
    /\ RagIdle /\ JudgeIdle /\ SchemaIdle

Next ==
    \/ EvalLoad
    \/ EvalPipeline
    \/ EvalScore
    \/ EvalSummary

Spec == Init /\ [][Next]_vars

InitRag ==
    /\ ragPc = "start" /\ cypher = NoCypher /\ result = NoResult /\ columns = <<>>
    /\ backend = <<>> /\ cursor = 0 /\ rows = <<>> /\ seen = {} /\ result_str = <<>>
    /\ calls = <<>> /\ synth = NoSynth
    /\ EvalIdle /\ JudgeIdle /\ SchemaIdle

NextRag ==
    \/ RunGenerate
    \/ ExecStart
    \/ ExecFetch
    \/ ExecSerialize
    \/ RunSynthesize

SpecRag == InitRag /\ [][NextRag]_vars

InitJudge ==
    /\ judgePc = "call" /\ judgeText \in JudgeTexts /\ judgeOut = NoJudgeOut
    /\ EvalIdle /\ RagIdle /\ SchemaIdle

NextJudge == JudgeCall

SpecJudge == InitJudge /\ [][NextJudge]_vars

InitSchema ==
    /\ schema \in Schemas /\ enum = NoEnum /\ texts = <<>> /\ reordered = FALSE
    /\ EvalIdle /\ RagIdle /\ JudgeIdle

NextSchema == Introspect

SpecSchema == InitSchema /\ [][NextSchema]_vars

----------------------------------------------------------------------------
\* Properties of run_evaluation (under Spec)

Terminated == evalPc \in {"returned", "crashed"}

JudgeCalls(id) == Cardinality({k \in DOMAIN log : log[k].op = "judge" /\ log[k].id = id})

PipelineCalls(id) == Cardinality({k \in DOMAIN log : log[k].op = "pipeline" /\ log[k].id = id})

\* the question's iteration is over: its record exists, or the run ended in it
Finished(id) ==
    \/ \E i \in DOMAIN results : results[i].id = id
    \/ evalPc = "crashed" /\ questions[idx].id = id

\* the pipeline returned a response that is neither empty nor the sentinel
Judgeable(ev) == ~ev.raised /\ ev.response # <<>> /\ ev.response # <<"N/A">>

\* C1: every record's score is an integer in [1,5] and its label is the fixed
\* label of that score (1 no_answer, 2 wrong, 3 partial, 4 acceptable, 5 correct).
C1_ScoreInRangeAndLabelled ==
    \A i \in DOMAIN results :
        /\ results[i].score \in 1..5
        /\ results[i].label =
            (CASE results[i].score = 1 -> "no_answer" [] results[i].score = 2 -> "wrong"
               [] results[i].score = 3 -> "partial" [] results[i].score = 4 -> "acceptable"
               [] results[i].score = 5 -> "correct")

\* C2: a question whose pipeline call raised gets a record with score 1, label
\* no_answer, the reasoning "Exception: <last line of the trace>" and an error
\* field that is set, the judge is not called for it, and the run goes on to
\* process every remaining question: once the run is over, every question has
\* its record.
C2_PipelineErrorRecordedAndRunGoesOn ==
    /\ \A k \in DOMAIN log :
        (log[k].op = "pipeline" /\ log[k].raised) =>
            /\ JudgeCalls(log[k].id) = 0
            /\ \A i \in DOMAIN results :
                results[i].id = log[k].id =>
                    /\ results[i].score = 1
                    /\ results[i].label = "no_answer"
                    /\ results[i].reasoning.t = "str"
                    /\ Len(results[i].reasoning.s) = 2
                    /\ results[i].reasoning.s[1] = "Exception: "
                    /\ results[i].reasoning.s[2] \in {GenError, ExecError, HashError}
                    /\ ~results[i].error.none
    /\ (Terminated /\ \E k \in DOMAIN log : log[k].op = "pipeline" /\ log[k].raised) =>
            Len(results) = Len(questions)

\* C3: no response text of the judge service makes judge_response raise, so no
\* evaluation run ends in an error of the judge.
C3_JudgeResponseNeverAbortsRun ==
    /\ evalPc # "crashed"
    /\ \A k \in DOMAIN log : log[k].op = "judge" => ~log[k].raised

\* C4: when the pipeline returns an empty response or "N/A", the record has score
\* 1, label no_answer, reasoning "No response returned" and no error, and the
\* judge is not called; the judge is called exactly once for a question if and
\* only if the pipeline returned a response that is neither empty nor "N/A".
C4_NoResponseSkipsJudge ==
    /\ \A k \in DOMAIN log :
        (log[k].op = "pipeline" /\ ~log[k].raised /\ log[k].response \in {<<>>, <<"N/A">>}) =>
            \A i \in DOMAIN results :
                results[i].id = log[k].id =>
                    /\ results[i].score = 1
                    /\ results[i].label = "no_answer"
                    /\ results[i].reasoning = PyStr(<<"No response returned">>)
                    /\ results[i].error.none
                    /\ results[i].response = log[k].response
    /\ \A k \in DOMAIN log :
        log[k].op = "pipeline" =>
            JudgeCalls(log[k].id) = IF Finished(log[k].id) /\ Judgeable(log[k]) THEN 1 ELSE 0
    /\ \A k \in DOMAIN log : log[k].op = "judge" => PipelineCalls(log[k].id) = 1

\* a record of a sentinel response and a record of a judged one
C4_Witness ==
    /\ \E i \in DOMAIN results :
        /\ results[i].error.none /\ results[i].response = <<"N/A">>
        /\ results[i].cypher # <<"N/A">>
        /\ results[i].reasoning = PyStr(<<"No response returned">>)
        /\ JudgeCalls(results[i].id) = 0
    /\ \E i \in DOMAIN results :
        /\ results[i].error.none /\ results[i].response = <<>>
        /\ JudgeCalls(results[i].id) = 0
    /\ \E i \in DOMAIN results : JudgeCalls(results[i].id) = 1

\* a question is empty when it holds nothing but blanks
IsBlank(text) == \A i \in DOMAIN text : text[i] = " "

NonBlankRows == {i \in DOMAIN dataset : ~IsBlank(dataset[i].Question)}

\* C6: once run_evaluation is over there is exactly one record per dataset row
\* with a non-empty question, in dataset order, whatever the outcomes; rows with
\* an empty question get no record, no pipeline call and no judge call; and a
\* question's pipeline call and judge call both come before the next question's
\* pipeline call.
C6_OneRecordPerQuestionInOrder ==
    /\ \A i \in DOMAIN results : results[i].id \in NonBlankRows
    /\ \A i, j \in DOMAIN results : i < j => results[i].id < results[j].id
    /\ Terminated => {results[i].id : i \in DOMAIN results} = NonBlankRows
    /\ \A k \in DOMAIN log : log[k].id \in NonBlankRows
    /\ \A k, l \in DOMAIN log : k < l =>
            /\ log[k].id <= log[l].id
            /\ log[k].id = log[l].id => (log[k].op = "pipeline" /\ log[l].op = "judge")
    /\ \A k \in DOMAIN log :
        \A n \in NonBlankRows :
            (log[k].op = "pipeline" /\ n < log[k].id) =>
                \E i \in DOMAIN results : results[i].id = n

----------------------------------------------------------------------------
\* Properties of judge_response (under SpecJudge)

\* the response parses as an object with a score that int() accepts
StructuredValid(text) ==
    LET r == json_loads(text) IN
    /\ r.ok
    /\ r.val.t = "dict"
    /\ "score" \in DOMAIN r.val.m
    /\ PyIntOf(r.val.m["score"]).exc = "none"

ScoreDigits == {"1", "2", "3", "4", "5"}

FirstScoreDigit(text) ==
    LET i == CHOOSE i \in DOMAIN text :
                /\ text[i] \in ScoreDigits
                /\ \A j \in 1..(i - 1) : text[j] \notin ScoreDigits
    IN  DigitVal(text[i])

\* C8: (a) a response that parses as a score/reasoning pair with a valid integer
\* score yields that score and reasoning; (b) any other response yields its first
\* character that is a digit in [1,5], with the raw text as the reasoning; (c) a
\* response without such a digit yields score 1 and a reasoning that embeds the
\* raw text.
C8_ThreeTierPrecedence ==
    judgePc = "done" =>
        IF StructuredValid(judgeText)
        THEN LET parsed == json_loads(judgeText).val IN
             judgeOut = JudgeReturn(PyIntOf(parsed.m["score"]).n, GetReasoning(parsed))
        ELSE IF \E i \in DOMAIN judgeText : judgeText[i] \in ScoreDigits
        THEN judgeOut = JudgeReturn(FirstScoreDigit(judgeText), PyStr(judgeText))
        ELSE /\ judgeOut.exc = "none"
             /\ judgeOut.score = 1
             /\ judgeOut.reasoning.t = "str"
             /\ Len(judgeOut.reasoning.s) = Len(judgeText) + 1
             /\ Tail(judgeOut.reasoning.s) = judgeText

----------------------------------------------------------------------------
\* Properties of GraphRAG.run and execute_query (under SpecRag)

IsPrefix(a, b) == Len(a) <= Len(b) /\ a = SubSeq(b, 1, Len(a))

\* C5: without a query, the outcome's query and answer are both "N/A" and
\* neither the query execution nor the synthesis call happens; with a query the
\* calls are generate, execute, synthesize, once each and in that order, and the
\* synthesis text is the answer, even if empty.
C5_RunCallsAndOutcome ==
    /\ IsPrefix(calls, <<"generate", "execute", "synthesize">>)
    /\ (calls # <<>> /\ cypher.kind = "none") =>
            /\ ragPc = "returned"
            /\ calls = <<"generate">>
            /\ result.cypher = <<"N/A">>
            /\ result.response = <<"N/A">>
    /\ (ragPc = "returned" /\ cypher.kind # "none") =>
            /\ cypher.kind = "query"
            /\ calls = <<"generate", "execute", "synthesize">>
            /\ result.cypher = cypher.query
            /\ synth.kind = "answer"
            /\ result.response = synth.answer

\* run returned an empty answer for a query that was executed
C5_Witness ==
    /\ ragPc = "returned"
    /\ cypher.kind = "query"
    /\ calls = <<"generate", "execute", "synthesize">>
    /\ synth.answer = <<>>
    /\ result.response = <<>>

\* the loop of execute_query is over
FetchOver == ragPc \in {"fetch_raised", "synthesize", "synthesize_raised", "returned"} /\ Len(calls) >= 2

FirstAt(row) == CHOOSE i \in DOMAIN backend : backend[i] = row /\ \A j \in 1..(i - 1) : backend[j] # row

\* C9: for every sequence of rows the backend returns, the kept rows hold each
\* distinct row once, in the order of first occurrence, and no other row.
C9_DedupEveryBackendResult ==
    FetchOver =>
        /\ ragPc # "fetch_raised"
        /\ Range(rows) = Range(backend)
        /\ \A i, j \in DOMAIN rows : i < j =>
                /\ rows[i] # rows[j]
                /\ FirstAt(rows[i]) < FirstAt(rows[j])

Serialized == ragPc \in {"synthesize", "synthesize_raised", "returned"} /\ Len(calls) >= 2

RECURSIVE Split(_, _)
\* text.split(sep)
Split(text, sep) ==
    IF \A i \in DOMAIN text : text[i] # sep THEN <<text>>
    ELSE LET i == CHOOSE i \in DOMAIN text : text[i] = sep /\ \A j \in 1..(i - 1) : text[j] # sep
         IN  <<SubSeq(text, 1, i - 1)>> \o Split(SubSeq(text, i + 1, Len(text)), sep)

\* the `col: value` pairs of a row whose value is not null, in column order
NonNullPairs(row) ==
    LET zipped == [i \in DOMAIN row |-> [col |-> columns[i], val |-> row[i]]]
        kept == SelectSeq(zipped, LAMBDA p : p.val.k # "null")
    IN  [i \in DOMAIN kept |-> <<kept[i].col, ": ", kept[i].val.v>>]

\* C10: no rows give the empty string; one column gives the values joined with
\* ", "; several columns give one line per row, the row's `col: value` pairs in
\* column order joined with " | ", the pairs of null values left out.
C10_Serialization ==
    Serialized =>
        /\ rows = <<>> => result_str = <<>>
        /\ (rows # <<>> /\ Len(columns) = 1) =>
                Split(result_str, ", ") = [i \in DOMAIN rows |-> <<rows[i][1].v>>]
        /\ (rows # <<>> /\ Len(columns) > 1) =>
                LET lines == Split(result_str, "\n") IN
                /\ Len(lines) = Len(rows)
                /\ \A i \in DOMAIN rows :
                    IF NonNullPairs(rows[i]) = <<>> THEN lines[i] = <<>>
                    ELSE Split(lines[i], " | ") = NonNullPairs(rows[i])

\* two columns, two rows, the second with a null
C10_Witness ==
    /\ Serialized
    /\ columns = <<"name", "age">>
    /\ rows = << <<Val("str", "a"), Val("int", "1")>>, <<Val("int", "1"), Val("null", "None")>> >>
    /\ result_str = <<"name", ": ", "a", " | ", "age", ": ", "1", "\n", "name", ": ", "1">>

----------------------------------------------------------------------------
\* Properties of get_schema_baml (under SpecSchema)

\* C7: introspecting the same schema again gives the same grounding text, in
\* whatever order the backend enumerates the tables and their columns.
C7_GroundingTextDeterministic ==
    \A i, j \in DOMAIN texts : texts[i] = texts[j]

\* the full schema, introspected twice with different enumeration orders
C7_Witness ==
    /\ Len(texts) >= 2
    /\ reordered
    /\ schema.nodes = NodeNames
    /\ schema.rels = RelPool
    /\ texts[1] = texts[2]

====
